---- MODULE Spec2Model ----
(***************************************************************************)
(* A model of the scoring engine of gamified-playground                    *)
(* (src/utils/scoring.js): calculateScore, calculateReadabilityScore,      *)
(* getChallengeScore and getLeaderboard, with the text scanners and the    *)
(* regular expressions they rest on.                                       *)
(*                                                                         *)
(* Conventions.                                                            *)
(*  - A JavaScript string is a sequence of one-character strings.  A code  *)
(*    snapshot in the state is a descriptor [head, fill, pad, tail] that   *)
(*    denotes head . fill^pad . tail; Text(s) builds the string, and every *)
(*    scanner works on the built string.                                   *)
(*  - A double that is a product of the factor tiers is kept as an integer *)
(*    number of ten-thousandths (Scale); a ratio is kept as numerator and  *)
(*    denominator and compared by cross-multiplication, with IEEE-754's    *)
(*    outcomes for a zero denominator (NaN, +Infinity, -Infinity).         *)
(*  - A JavaScript value that may be NaN or a non-number is a record       *)
(*    [type, nan, val].                                                    *)
(***************************************************************************)
EXTENDS Integers, Sequences, FiniteSets, TLC

(***************************************************************************)
(* Characters and strings                                                  *)
(***************************************************************************)
Lower == {"a","b","c","d","e","f","g","h","i","j","k","l","m",
          "n","o","p","q","r","s","t","u","v","w","x","y","z"}

Upper == {"A","B","C","D","E","F","G","H","I","J","K","L","M",
          "N","O","P","Q","R","S","T","U","V","W","X","Y","Z"}

Digit == {"0","1","2","3","4","5","6","7","8","9"}

\* \s of a JavaScript regular expression, and what trim() strips.
Whitespace == {" ", "\n", "\t"}

\* \w of a JavaScript regular expression.
WordChar == Lower \cup Upper \cup Digit \cup {"_"}

Min(S) == CHOOSE x \in S : \A y \in S : x <= y

Max2(a, b) == IF a >= b THEN a ELSE b

Min2(a, b) == IF a <= b THEN a ELSE b

\* The string a snapshot descriptor denotes.
Text(s) == s.head \o [i \in 1..s.pad |-> s.fill] \o s.tail

\* String.prototype.indexOf-style test: pat occurs in text at index i (1-based).
OccursAt(text, pat, i) ==
    /\ i >= 1
    /\ i + Len(pat) - 1 <= Len(text)
    /\ \A k \in 1..Len(pat) : text[i + k - 1] = pat[k]

\* The number of characters from index i on that lie in set (neg: outside
\* set), up to the first that does not: the greedy run of a character class.
RunLength(text, i, set, neg) ==
    IF i > Len(text) \/ ((text[i] \in set) = neg) THEN 0
    ELSE LET stops == {q \in i..Len(text) : (text[q] \in set) = neg}
         IN  IF stops = {} THEN Len(text) + 1 - i ELSE Min(stops) - i

\* String.prototype.trim and trimStart.
TrimStart(text) == SubSeq(text, 1 + RunLength(text, 1, Whitespace, FALSE), Len(text))

Trim(text) ==
    LET t == TrimStart(text)
        keep == {q \in 1..Len(t) : t[q] \notin Whitespace}
    IN  IF keep = {} THEN <<>> ELSE SubSeq(t, 1, CHOOSE q \in keep : \A r \in keep : r <= q)

\* String.prototype.split(sep) for a one-character separator: the pieces
\* between the separators, empty pieces included.
RECURSIVE SplitFrom(_, _, _)
SplitFrom(text, sep, from) ==
    LET hits == {q \in from..Len(text) : text[q] = sep}
    IN  IF hits = {} THEN << SubSeq(text, from, Len(text)) >>
        ELSE << SubSeq(text, from, Min(hits) - 1) >> \o SplitFrom(text, sep, Min(hits) + 1)

Split(text, sep) == SplitFrom(text, sep, 1)

\* String.prototype.split(/[set]+/): the pieces between the maximal runs of
\* characters of set, empty pieces (before a leading run, after a trailing
\* one, or the whole of an empty string) included.
RECURSIVE SplitRunsFrom(_, _, _)
SplitRunsFrom(text, set, from) ==
    LET hits == {q \in from..Len(text) : text[q] \in set}
    IN  IF hits = {} THEN << SubSeq(text, from, Len(text)) >>
        ELSE LET q == Min(hits)
             IN  << SubSeq(text, from, q - 1) >>
                 \o SplitRunsFrom(text, set, q + RunLength(text, q, set, FALSE))

SplitRuns(text, set) == SplitRunsFrom(text, set, 1)

\* Array.prototype.filter(...).length, from the sequence that tells for each
\* element whether the filter keeps it.
FilterLength(kept) == Cardinality({k \in 1..Len(kept) : kept[k]})

(***************************************************************************)
(* Regular expressions: a backtracking matcher.  Run(re, text, st) is the  *)
(* sequence of matcher states reachable from st by matching re, in the     *)
(* order a backtracking engine tries them (greedy repetition longest       *)
(* first, alternatives left to right); the match the engine reports is the *)
(* first.  A state is the index of the next character and the captures.    *)
(***************************************************************************)
Lit(cs) == [t |-> "lit", cs |-> cs]

Cls(set) == [t |-> "cls", set |-> set, neg |-> FALSE]

Star(set) == [t |-> "rep", set |-> set, neg |-> FALSE, min |-> 0]

Plus(set) == [t |-> "rep", set |-> set, neg |-> FALSE, min |-> 1]

StarNot(set) == [t |-> "rep", set |-> set, neg |-> TRUE, min |-> 0]

WB == [t |-> "wb"]

Alt(rs) == [t |-> "alt", rs |-> rs]

Cat(rs) == [t |-> "cat", rs |-> rs]

Grp(n, r) == [t |-> "grp", n |-> n, r |-> r]

NoCaps == << <<0, 0>>, <<0, 0>> >>

IsWordAt(text, i) == i >= 1 /\ i <= Len(text) /\ text[i] \in WordChar

RECURSIVE Run(_, _, _)
RECURSIVE RunAlt(_, _, _, _)
RECURSIVE RunCat(_, _, _, _)
RECURSIVE FlatMap(_, _, _, _, _)

Run(re, text, st) ==
    CASE re.t = "lit" ->
           IF OccursAt(text, re.cs, st.pos)
           THEN << [st EXCEPT !.pos = @ + Len(re.cs)] >> ELSE << >>
      [] re.t = "cls" ->
           IF st.pos <= Len(text) /\ text[st.pos] \in re.set
           THEN << [st EXCEPT !.pos = @ + 1] >> ELSE << >>
      [] re.t = "rep" ->
           LET k == RunLength(text, st.pos, re.set, re.neg)
           IN  IF k < re.min THEN << >>
               ELSE [j \in 1..(k - re.min + 1) |-> [st EXCEPT !.pos = @ + k - j + 1]]
      [] re.t = "wb" ->
           IF IsWordAt(text, st.pos - 1) # IsWordAt(text, st.pos)
           THEN << st >> ELSE << >>
      [] re.t = "alt" -> RunAlt(re.rs, 1, text, st)
      [] re.t = "cat" -> RunCat(re.rs, 1, text, << st >>)
      [] re.t = "grp" ->
           LET inner == Run(re.r, text, st)
           IN  [j \in 1..Len(inner) |->
                   [inner[j] EXCEPT !.caps[re.n] = <<st.pos, inner[j].pos>>]]

RunAlt(rs, k, text, st) ==
    IF k > Len(rs) THEN << >>
    ELSE Run(rs[k], text, st) \o RunAlt(rs, k + 1, text, st)

RunCat(rs, k, text, states) ==
    IF k > Len(rs) \/ states = << >> THEN states
    ELSE RunCat(rs, k + 1, text, FlatMap(rs[k], text, states, 1, Len(states)))

\* The states reachable by r from states[lo..hi], in order.
FlatMap(r, text, states, lo, hi) ==
    IF lo > hi THEN << >>
    ELSE IF lo = hi THEN Run(r, text, states[lo])
    ELSE LET mid == (lo + hi) \div 2
         IN  FlatMap(r, text, states, lo, mid) \o FlatMap(r, text, states, mid + 1, hi)

\* The characters a match of re can begin with: [chars, open], open when
\* re can match without consuming a character of chars first (so that a match
\* may begin anywhere).  A search skips the indexes no match can begin at.
RECURSIVE First(_)
RECURSIVE FirstAlt(_, _)
RECURSIVE FirstCat(_, _)

First(re) ==
    CASE re.t = "lit" -> [chars |-> {re.cs[1]}, open |-> FALSE]
      [] re.t = "cls" -> [chars |-> re.set, open |-> FALSE]
      [] re.t = "rep" -> [chars |-> re.set, open |-> re.neg \/ re.min = 0]
      [] re.t = "wb" -> [chars |-> {}, open |-> TRUE]
      [] re.t = "alt" -> FirstAlt(re.rs, 1)
      [] re.t = "cat" -> FirstCat(re.rs, 1)
      [] re.t = "grp" -> First(re.r)

FirstAlt(rs, k) ==
    IF k > Len(rs) THEN [chars |-> {}, open |-> FALSE]
    ELSE [chars |-> First(rs[k]).chars \cup FirstAlt(rs, k + 1).chars,
          open |-> First(rs[k]).open \/ FirstAlt(rs, k + 1).open]

\* A zero-width assertion at the head of a sequence constrains the match
\* and consumes nothing: the sequence begins with what follows it.
FirstCat(rs, k) ==
    IF k > Len(rs) THEN [chars |-> {}, open |-> TRUE]
    ELSE IF rs[k].t = "wb" THEN FirstCat(rs, k + 1)
    ELSE IF First(rs[k]).open
         THEN [chars |-> First(rs[k]).chars \cup FirstCat(rs, k + 1).chars,
               open |-> ~(rs[k].t = "rep" /\ ~rs[k].neg) \/ FirstCat(rs, k + 1).open]
    ELSE First(rs[k])

\* The match at index i, if any: <<[from, to, caps]>> or <<>>.
FirstOf(i, states) ==
    IF states = << >> THEN << >>
    ELSE << [from |-> i, to |-> states[1].pos, caps |-> states[1].caps] >>

MatchAt(re, text, i) == FirstOf(i, Run(re, text, [pos |-> i, caps |-> NoCaps]))

\* String.prototype.match(/re/g) and matchAll: the successive leftmost
\* matches, each search resuming where the last match ended (one further
\* on after an empty match).
RECURSIVE NextMatches(_, _)
NextMatches(hits, from) ==
    LET starts == {j \in from..Len(hits) : hits[j] # << >>}
    IN  IF starts = {} THEN << >>
        ELSE LET m == hits[Min(starts)][1]
             IN  << m >> \o NextMatches(hits, IF m.to = m.from THEN m.to + 1 ELSE m.to)

MatchAll(re, text) ==
    LET first == First(re)
        hits == [i \in 1..(Len(text) + 1) |->
                    IF first.open \/ (i <= Len(text) /\ text[i] \in first.chars)
                    THEN MatchAt(re, text, i) ELSE << >>]
    IN  NextMatches(hits, 1)

\* The text of a match, and of its n-th capture group.
MatchText(text, m) == SubSeq(text, m.from, m.to - 1)

Group(text, m, n) == SubSeq(text, m.caps[n][1], m.caps[n][2] - 1)

(***************************************************************************)
(* The regular expressions of scoring.js                                   *)
(***************************************************************************)
Letter == Lower \cup Upper

AlphaNum == Letter \cup Digit

IdentStart == Letter \cup {"_", "$"}

IdentChar == IdentStart \cup Digit

\* (var|let|const)
DeclKeyword ==
    Alt(<< Lit(<<"v","a","r">>), Lit(<<"l","e","t">>), Lit(<<"c","o","n","s","t">>) >>)

\* [a-zA-Z_$][a-zA-Z0-9_$]*
Identifier == Cat(<< Cls(IdentStart), Star(IdentChar) >>)

\* /\b(var|let|const)\s+([a-zA-Z_$][a-zA-Z0-9_$]*)\b/g
varDeclarationPattern ==
    Cat(<< WB, Grp(1, DeclKeyword), Plus(Whitespace), Grp(2, Identifier), WB >>)

\* /if\s*\(\s*(false|0)\s*\)/g
unreachableBlockPattern ==
    Cat(<< Lit(<<"i","f">>), Star(Whitespace), Lit(<<"(">>), Star(Whitespace),
           Grp(1, Alt(<< Lit(<<"f","a","l","s","e">>), Lit(<<"0">>) >>)),
           Star(Whitespace), Lit(<<")">>) >>)

\* /{\s*}/g
emptyBlockPattern == Cat(<< Lit(<<"{">>), Star(Whitespace), Lit(<<"}">>) >>)

\* /eval\s*\(/g
evalPattern == Cat(<< Lit(<<"e","v","a","l">>), Star(Whitespace), Lit(<<"(">>) >>)

\* /new\s+Function\s*\(/g
functionConstructorPattern ==
    Cat(<< Lit(<<"n","e","w">>), Plus(Whitespace),
           Lit(<<"F","u","n","c","t","i","o","n">>), Star(Whitespace), Lit(<<"(">>) >>)

\* /\b(var|let|const)\s+([a-zA-Z])\b/g
singleCharVarPattern ==
    Cat(<< WB, Grp(1, DeclKeyword), Plus(Whitespace), Grp(2, Cls(Letter)), WB >>)

\* /\{[^\{\}]*\{[^\{\}]*\{[^\{\}]*\{/g
deepNestingPattern ==
    Cat(<< Lit(<<"{">>), StarNot({"{", "}"}), Lit(<<"{">>), StarNot({"{", "}"}),
           Lit(<<"{">>), StarNot({"{", "}"}), Lit(<<"{">>) >>)

\* /\b(var|let|const)\s+([a-z][a-zA-Z0-9]*[A-Z][a-zA-Z0-9]*|[a-zA-Z]+_[a-zA-Z]+)\b/g
descriptiveVarPattern ==
    Cat(<< WB, Grp(1, DeclKeyword), Plus(Whitespace),
           Grp(2, Alt(<< Cat(<< Cls(Lower), Star(AlphaNum), Cls(Upper), Star(AlphaNum) >>),
                         Cat(<< Plus(Letter), Lit(<<"_">>), Plus(Letter) >>) >>)),
           WB >>)

\* /function\s+([a-zA-Z_$][a-zA-Z0-9_$]*)\s*\([^)]*\)\s*\{([^}]*)\}/g
functionPattern ==
    Cat(<< Lit(<<"f","u","n","c","t","i","o","n">>), Plus(Whitespace),
           Grp(1, Identifier), Star(Whitespace), Lit(<<"(">>), StarNot({")"}),
           Lit(<<")">>), Star(Whitespace), Lit(<<"{">>), Grp(2, StarNot({"}"})),
           Lit(<<"}">>) >>)

\* /\([^)]*\)\s*=>\s*\{([^}]*)\}/g
arrowFunctionPattern ==
    Cat(<< Lit(<<"(">>), StarNot({")"}), Lit(<<")">>), Star(Whitespace),
           Lit(<<"=",">">>), Star(Whitespace), Lit(<<"{">>),
           Grp(1, StarNot({"}"})), Lit(<<"}">>) >>)

\* (code.match(/re/g) || []).length and [...code.matchAll(/re/g)].length
MatchCount(re, text) == Len(MatchAll(re, text))

(***************************************************************************)
(* JavaScript numbers                                                      *)
(***************************************************************************)
\* A factor (1.0, 1.1, 1.25, 1.3, 1.5) is kept in hundredths, the product
\* of two factors in ten-thousandths.
FactorUnit == 10 * 10

Scale == FactorUnit * FactorUnit

Number(n) == [type |-> "number", nan |-> FALSE, val |-> n]

NaN == [type |-> "number", nan |-> TRUE, val |-> 0]

Undefined == [type |-> "undefined", nan |-> FALSE, val |-> 0]

\* A function object, as found on Object.prototype.
FunctionObject == [type |-> "function", nan |-> FALSE, val |-> 0]

\* ToBoolean, for the values a property lookup yields.
Truthy(v) ==
    CASE v.type = "undefined" -> FALSE
      [] v.type = "number" -> ~v.nan /\ v.val # 0
      [] OTHER -> TRUE

\* ToNumber: a function or undefined converts to NaN.
ToNumber(v) == IF v.type = "number" THEN v ELSE NaN

Abs(n) == IF n < 0 THEN -n ELSE n

\* Math.round(n / d) for d > 0: the nearest integer, a half rounded up.
Round(n, d) == (2 * n + d) \div (2 * d)

\* n / d > a / b, n / d < a / b and n / d <= a / b as IEEE-754 doubles decide
\* them, for d >= 0 and b > 0: with d = 0 the quotient is NaN (n = 0, every
\* comparison false), +Infinity (n > 0) or -Infinity (n < 0).
RatioGt(n, d, a, b) == IF d = 0 THEN n > 0 ELSE n * b > a * d

RatioLt(n, d, a, b) == IF d = 0 THEN n < 0 ELSE n * b < a * d

RatioLe(n, d, a, b) == IF d = 0 THEN n < 0 ELSE n * b <= a * d

(***************************************************************************)
(* calculateScore                                                          *)
(***************************************************************************)
KnownIds == {"format", "minify", "es6-to-es5", "jsx-to-js", "rename-variables",
             "flatten-control-flow", "remove-dead-code"}

TRANSFORMATION_POINTS ==
    [id \in KnownIds |->
        CASE id = "format" -> 10
          [] id = "minify" -> 20
          [] id = "es6-to-es5" -> 30
          [] id = "jsx-to-js" -> 40
          [] id = "rename-variables" -> 25
          [] id = "flatten-control-flow" -> 35
          [] id = "remove-dead-code" -> 30]

\* The properties every object literal inherits from Object.prototype.
ObjectPrototypeKeys ==
    {"constructor", "toString", "toLocaleString", "valueOf", "hasOwnProperty",
     "isPrototypeOf", "propertyIsEnumerable"}

\* TRANSFORMATION_POINTS[transformerId]: an own property, else one inherited
\* from Object.prototype, else undefined.
PointsLookup(transformerId) ==
    IF transformerId \in KnownIds THEN Number(TRANSFORMATION_POINTS[transformerId])
    ELSE IF transformerId \in ObjectPrototypeKeys THEN FunctionObject
    ELSE Undefined

\* TRANSFORMATION_POINTS[transformerId] || 5
BasePoints(transformerId) ==
    IF Truthy(PointsLookup(transformerId)) THEN PointsLookup(transformerId)
    ELSE Number(5)

\* lengthFactor with the thresholds taken inclusively: what the tiers would be
\* were a length of exactly 200, 500 or 1000 to count as the larger tier.
LengthFactorInclusive(originalLength) ==
    IF originalLength >= 1000 THEN 150
    ELSE IF originalLength >= 500 THEN 125
    ELSE IF originalLength >= 200 THEN 110
    ELSE 100

\* lengthFactor, in hundredths.
LengthFactor(originalLength) ==
    IF originalLength > 1000 THEN 150
    ELSE IF originalLength > 500 THEN 125
    ELSE IF originalLength > 200 THEN 110
    ELSE 100

\* changeFactor, in hundredths; changePercentage is
\* Math.abs(transformedLength - originalLength) / originalLength.
ChangeFactor(originalLength, transformedLength) ==
    LET change == Abs(transformedLength - originalLength)
    IN  IF RatioGt(change, originalLength, 5, 10) THEN 150
        ELSE IF RatioGt(change, originalLength, 3, 10) THEN 130
        ELSE IF RatioGt(change, originalLength, 1, 10) THEN 110
        ELSE 100

\* In ten-thousandths.
calculateComplexityFactor(originalCode, transformedCode) ==
    LengthFactor(Len(originalCode)) * ChangeFactor(Len(originalCode), Len(transformedCode))

\* String.prototype.indexOf(searchStr, from), 1-based; 0 for JavaScript's -1.
IndexOf(str, searchStr, from) ==
    LET hits == {i \in Max2(from, 1)..Len(str) :
                    str[i] = searchStr[1] /\ OccursAt(str, searchStr, i)}
    IN  IF hits = {} THEN 0 ELSE Min(hits)

RECURSIVE CountFrom(_, _, _)
CountFrom(str, searchStr, position) ==
    IF position = 0 THEN 0
    ELSE 1 + CountFrom(str, searchStr, IndexOf(str, searchStr, position + 1))

countOccurrences(str, searchStr) == CountFrom(str, searchStr, IndexOf(str, searchStr, 1))

EndsWith(text, c) == Len(text) > 0 /\ text[Len(text)] = c

StartsWith(text, c) == Len(text) > 0 /\ text[1] = c

\* One turn of countIndentationIssues' loop: st is [issues, expectedIndent].
IndentStep(st, line) ==
    LET trimmed == Trim(line)
        actualIndent == Len(line) - Len(TrimStart(line))
        expectedSpaces == st.expectedIndent * 2
        counted == IF actualIndent # expectedSpaces THEN st.issues + 1 ELSE st.issues
    IN  IF trimmed = << >> THEN st
        ELSE [issues |-> counted,
              expectedIndent |->
                 IF EndsWith(trimmed, "{") THEN st.expectedIndent + 1
                 ELSE IF StartsWith(trimmed, "}") THEN Max2(0, st.expectedIndent - 1)
                 ELSE st.expectedIndent]

RECURSIVE IndentLoop(_, _, _)
IndentLoop(lines, k, st) ==
    IF k > Len(lines) THEN st ELSE IndentLoop(lines, k + 1, IndentStep(st, lines[k]))

countIndentationIssues(code) ==
    IndentLoop(Split(code, "\n"), 1, [issues |-> 0, expectedIndent |-> 0]).issues

\* (trimmed.match(/c/g) || []).length for a one-character pattern.
CountChar(text, c) == Cardinality({i \in 1..Len(text) : text[i] = c})

\* The turn of the nesting loop with the running level floored at 0.
NestingStepFloored(st, line) ==
    [currentLevel |->
         Max2(0, st.currentLevel + CountChar(Trim(line), "{") - CountChar(Trim(line), "}")),
     maxLevel |->
         Max2(st.maxLevel,
              Max2(0, st.currentLevel + CountChar(Trim(line), "{")
                                      - CountChar(Trim(line), "}")))]

\* One turn of calculateMaxNestingLevel's loop: st is [currentLevel, maxLevel].
NestingStep(st, line) ==
    LET trimmed == Trim(line)
        openBraces == CountChar(trimmed, "{")
        closeBraces == CountChar(trimmed, "}")
        level == st.currentLevel + openBraces - closeBraces
    IN  [currentLevel |-> level, maxLevel |-> Max2(st.maxLevel, level)]

RECURSIVE NestingLoop(_, _, _)
NestingLoop(lines, k, st) ==
    IF k > Len(lines) THEN st ELSE NestingLoop(lines, k + 1, NestingStep(st, lines[k]))

calculateMaxNestingLevel(code) ==
    NestingLoop(Split(code, "\n"), 1, [currentLevel |-> 0, maxLevel |-> 0]).maxLevel

\* names.reduce((sum, name) => sum + name.length, 0)
RECURSIVE SumLengths(_, _)
SumLengths(names, k) ==
    IF k > Len(names) THEN 0 ELSE Len(names[k]) + SumLengths(names, k + 1)

\* An average name length as <<total, count>>; 0 (that is <<0, 1>>) when
\* there are no names.
Average(names) == IF Len(names) > 0 THEN << SumLengths(names, 1), Len(names) >> ELSE << 0, 1 >>

\* case 'format'
FormatRule(originalIndentation, transformedIndentation) ==
    IF transformedIndentation < originalIndentation
    THEN (originalIndentation - transformedIndentation) * 2 ELSE 0

formatBonus(originalCode, transformedCode) ==
    FormatRule(countIndentationIssues(originalCode), countIndentationIssues(transformedCode))

\* The minify tiers with a reduction of exactly one half counted as the top
\* tier.
minifyBonusInclusive(originalCode, transformedCode) ==
    IF Len(originalCode) = 0 THEN 0
    ELSE IF 2 * (Len(originalCode) - Len(transformedCode)) >= Len(originalCode) THEN 30
    ELSE IF 10 * (Len(originalCode) - Len(transformedCode)) > 3 * Len(originalCode) THEN 20
    ELSE IF 10 * (Len(originalCode) - Len(transformedCode)) > Len(originalCode) THEN 10
    ELSE 0

\* case 'minify'; sizeReduction is
\* (originalCode.length - transformedCode.length) / originalCode.length.
minifyBonus(originalCode, transformedCode) ==
    LET saved == Len(originalCode) - Len(transformedCode)
    IN  IF RatioGt(saved, Len(originalCode), 5, 10) THEN 30
        ELSE IF RatioGt(saved, Len(originalCode), 3, 10) THEN 20
        ELSE IF RatioGt(saved, Len(originalCode), 1, 10) THEN 10
        ELSE 0

\* case 'es6-to-es5'
es6Bonus(originalCode, transformedCode) ==
    LET arrowFunctionsConverted ==
            countOccurrences(originalCode, <<"=", ">">>)
              - countOccurrences(transformedCode, <<"=", ">">>)
        letConstConverted ==
            (countOccurrences(originalCode, <<"l","e","t"," ">>)
               + countOccurrences(originalCode, <<"c","o","n","s","t"," ">>))
            - (countOccurrences(transformedCode, <<"l","e","t"," ">>)
                 + countOccurrences(transformedCode, <<"c","o","n","s","t"," ">>))
    IN  arrowFunctionsConverted * 5 + letConstConverted * 3

\* The jsx bonus given only when the count of "<" went down.
jsxBonusOnlyIfReduced(originalCode, transformedCode) ==
    IF countOccurrences(transformedCode, <<"<">>) < countOccurrences(originalCode, <<"<">>)
    THEN (countOccurrences(originalCode, <<"<">>)
            - countOccurrences(transformedCode, <<"<">>)) * 5
    ELSE 0

\* case 'jsx-to-js'
jsxBonus(originalCode, transformedCode) ==
    (countOccurrences(originalCode, <<"<">>) - countOccurrences(transformedCode, <<"<">>)) * 5

\* code.match(varDeclarationPattern).map(decl => decl.split(/\s+/)[1])
SecondWords(code, decls) ==
    [k \in 1..Len(decls) |-> SplitRuns(MatchText(code, decls[k]), Whitespace)[2]]

DeclaredNames(code) == SecondWords(code, MatchAll(varDeclarationPattern, code))

IsSingleLetter(name) == Len(name) = 1

\* case 'rename-variables'
RenameRule(originalVarNames, transformedVarNames) ==
    LET o == Average(originalVarNames)
        t == Average(transformedVarNames)
        lengthBonus == IF t[1] * o[2] > o[1] * t[2]
                       THEN Round(10 * (t[1] * o[2] - o[1] * t[2]), t[2] * o[2]) ELSE 0
        originalShortVars ==
            FilterLength([k \in 1..Len(originalVarNames) |->
                             IsSingleLetter(originalVarNames[k])])
        transformedShortVars ==
            FilterLength([k \in 1..Len(transformedVarNames) |->
                             IsSingleLetter(transformedVarNames[k])])
        shortBonus == IF transformedShortVars < originalShortVars
                      THEN (originalShortVars - transformedShortVars) * 5 ELSE 0
    IN  lengthBonus + shortBonus

renameBonus(originalCode, transformedCode) ==
    RenameRule(DeclaredNames(originalCode), DeclaredNames(transformedCode))

\* case 'flatten-control-flow'
FlattenRule(originalNestingLevel, transformedNestingLevel) ==
    IF transformedNestingLevel < originalNestingLevel
    THEN (originalNestingLevel - transformedNestingLevel) * 10 ELSE 0

flattenBonus(originalCode, transformedCode) ==
    FlattenRule(calculateMaxNestingLevel(originalCode),
                calculateMaxNestingLevel(transformedCode))

\* case 'remove-dead-code'
deadCodeBonus(originalCode, transformedCode) ==
    LET unreachableBlocksRemoved ==
            MatchCount(unreachableBlockPattern, originalCode)
              - MatchCount(unreachableBlockPattern, transformedCode)
        emptyBlocksRemoved ==
            MatchCount(emptyBlockPattern, originalCode)
              - MatchCount(emptyBlockPattern, transformedCode)
        saved == Len(originalCode) - Len(transformedCode)
        reductionBonus ==
            IF RatioGt(saved, Len(originalCode), 2, 10) THEN 20
            ELSE IF RatioGt(saved, Len(originalCode), 1, 10) THEN 10
            ELSE IF RatioGt(saved, Len(originalCode), 5, 100) THEN 5
            ELSE 0
    IN  unreachableBlocksRemoved * 15 + emptyBlocksRemoved * 5 + reductionBonus

calculateBonusPoints(originalCode, transformedCode, transformerId) ==
    CASE transformerId = "format" -> formatBonus(originalCode, transformedCode)
      [] transformerId = "minify" -> minifyBonus(originalCode, transformedCode)
      [] transformerId = "es6-to-es5" -> es6Bonus(originalCode, transformedCode)
      [] transformerId = "jsx-to-js" -> jsxBonus(originalCode, transformedCode)
      [] transformerId = "rename-variables" -> renameBonus(originalCode, transformedCode)
      [] transformerId = "flatten-control-flow" -> flattenBonus(originalCode, transformedCode)
      [] transformerId = "remove-dead-code" -> deadCodeBonus(originalCode, transformedCode)
      [] OTHER -> 0

\* Math.round(basePoints * complexityFactor + bonusPoints); basePoints is
\* converted by ToNumber, and NaN propagates through the arithmetic.
TotalScore(basePoints, complexityFactor, bonusPoints) ==
    IF ToNumber(basePoints).nan THEN NaN
    ELSE Number(Round(ToNumber(basePoints).val * complexityFactor + bonusPoints * Scale, Scale))

\* The locals of calculateScore and the value it returns.
ScoreOf(basePoints, complexityFactor, bonusPoints) ==
    [basePoints |-> basePoints,
     complexityFactor |-> complexityFactor,
     bonusPoints |-> bonusPoints,
     totalScore |-> TotalScore(basePoints, complexityFactor, bonusPoints)]

calculateScore(originalCode, transformedCode, transformerId) ==
    ScoreOf(BasePoints(transformerId),
            calculateComplexityFactor(originalCode, transformedCode),
            calculateBonusPoints(originalCode, transformedCode, transformerId))

(***************************************************************************)
(* getLeaderboard                                                          *)
(***************************************************************************)
\* (a, b) => b.score - a.score
CompareEntries(a, b) == b.score - a.score

\* An unstable insertion: an element goes before the elements already placed
\* that compare equal to it.
InsertBeforeEqual(sorted, e) ==
    LET later == {k \in 1..Len(sorted) : CompareEntries(sorted[k], e) >= 0}
        at == IF later = {} THEN Len(sorted) + 1 ELSE Min(later)
    IN  SubSeq(sorted, 1, at - 1) \o << e >> \o SubSeq(sorted, at, Len(sorted))

\* Array.prototype.sort is stable: an element goes after every element
\* already placed that does not compare greater than it.
InsertSorted(sorted, e) ==
    LET later == {k \in 1..Len(sorted) : CompareEntries(sorted[k], e) > 0}
        at == IF later = {} THEN Len(sorted) + 1 ELSE Min(later)
    IN  SubSeq(sorted, 1, at - 1) \o << e >> \o SubSeq(sorted, at, Len(sorted))

RECURSIVE SortFrom(_, _, _)
SortFrom(array, k, sorted) ==
    IF k > Len(array) THEN sorted
    ELSE SortFrom(array, k + 1, InsertSorted(sorted, array[k]))

\* [...entries].sort(...): the array the caller passed, as the call leaves
\* it, and the array returned.
getLeaderboard(entries) ==
    [entries |-> entries, returned |-> SortFrom(entries, 1, << >>)]

(***************************************************************************)
(* calculateReadabilityScore                                               *)
(***************************************************************************)
\* A string value.
String(text) == [type |-> "string", str |-> text]

\* !code: the empty string, null, undefined, 0 and NaN are falsy.
Falsy(code) ==
    CASE code.type = "string" -> code.str = << >>
      [] code.type = "number" -> code.nan \/ code.val = 0
      [] code.type \in {"undefined", "null"} -> TRUE
      [] OTHER -> FALSE

\* (functionBody.match(/\n/g) || []).length + 1 < 15
IsShortBody(functionBody) == CountChar(functionBody, "\n") + 1 < 15

\* The score before the final clamp.
\* The matches whose n-th group, the function body, is short.
ShortBodies(code, matches, n) ==
    Cardinality({k \in 1..Len(matches) : IsShortBody(Group(code, matches[k], n))})

\* The readability sum with the running score floored at 0 after the
\* penalties, before the bonuses are added.
ReadabilitySumFloored(code) ==
    Max2(0, 100 - (MatchCount(evalPattern, code)
                     + MatchCount(functionConstructorPattern, code)) * 10
                - MatchCount(singleCharVarPattern, code) * 5
                - MatchCount(deepNestingPattern, code) * 5
                - (IF Len(code) > 500 THEN 5 ELSE 0))
      + MatchCount(descriptiveVarPattern, code) * 10
      + ShortBodies(code, MatchAll(functionPattern, code), 2) * 5
      + ShortBodies(code, MatchAll(arrowFunctionPattern, code), 1) * 5

ReadabilitySum(code) ==
    LET evalUsage == MatchCount(evalPattern, code)
        functionConstructorUsage == MatchCount(functionConstructorPattern, code)
        singleCharVars == MatchAll(singleCharVarPattern, code)
        deepNestings == MatchCount(deepNestingPattern, code)
        descriptiveVars == MatchAll(descriptiveVarPattern, code)
        shortFunctions == ShortBodies(code, MatchAll(functionPattern, code), 2)
        shortArrows == ShortBodies(code, MatchAll(arrowFunctionPattern, code), 1)
    IN  100 - (evalUsage + functionConstructorUsage) * 10
            - Len(singleCharVars) * 5
            - deepNestings * 5
            - (IF Len(code) > 500 THEN 5 ELSE 0)
            + Len(descriptiveVars) * 10
            + shortFunctions * 5
            + shortArrows * 5

\* Math.round(score) alone, without the clamp.
RoundOnly(score) == Round(score, 1)

\* Math.max(0, Math.min(100, Math.round(score)))
Clamp(score) == Max2(0, Min2(100, Round(score, 1)))

calculateReadabilityScore(code) ==
    IF Falsy(code) \/ code.type # "string" THEN 0
    ELSE Clamp(ReadabilitySum(code.str))

(***************************************************************************)
(* getChallengeScore                                                       *)
(***************************************************************************)
\* The class of /[\s\(\)\{\}\[\]\;\,\.\+\-\*\/\=\!\<\>\&\|\^\%\?\:\~]+/
TokenSeparators ==
    Whitespace \cup {"(", ")", "{", "}", "[", "]", ";", ",", ".", "+", "-", "*",
                     "/", "=", "!", "<", ">", "&", "|", "^", "%", "?", ":", "~"}

NonEmpty(token) == Len(token) > 0

\* tokens.filter(token => token.length > 0).length
NonEmptyTokens(tokens) == FilterLength([k \in 1..Len(tokens) |-> NonEmpty(tokens[k])])

countTokens(code) == NonEmptyTokens(SplitRuns(code, TokenSeparators))

IsShortName(name) == Len(name) <= 2

IsDescriptiveName(name) ==
    Len(name) > 3 /\ \E k \in 1..Len(name) : name[k] \in Upper \cup {"_"}

\* avgLength is <<totalLength, count>>, and <<0, 1>> for no declarations.
\* declarations.map(match => match[n])
Groups(code, declarations, n) ==
    [k \in 1..Len(declarations) |-> Group(code, declarations[k], n)]

NameStatistics(varNames) ==
    [count |-> Len(varNames),
     avgLength |-> Average(varNames),
     shortNames |-> FilterLength([k \in 1..Len(varNames) |-> IsShortName(varNames[k])]),
     descriptiveNames |->
         FilterLength([k \in 1..Len(varNames) |-> IsDescriptiveName(varNames[k])])]

analyzeVariableNames(code) ==
    NameStatistics(Groups(code, MatchAll(varDeclarationPattern, code), 2))

IsLongLine(line) == Len(Trim(line)) > 100

\* lines.filter(line => line.trim().length > 100).length
LongLines(lines) == FilterLength([k \in 1..Len(lines) |-> IsLongLine(lines[k])])

\* The three checks of assessFormatting, on the line counts, the
\* indentation issues and the long lines of the two snapshots.
FormattingRule(originalLines, transformedLines, originalIndentIssues, transformedIndentIssues, originalLongLines, transformedLongLines) ==
    \* transformedLines > originalLines * 1.2
    (IF transformedLines * 10 > originalLines * 12 THEN 10 ELSE 0)
    + (IF transformedIndentIssues < originalIndentIssues
       THEN Min2(15, originalIndentIssues - transformedIndentIssues) ELSE 0)
    + (IF transformedLongLines < originalLongLines
       THEN Min2(10, (originalLongLines - transformedLongLines) * 2) ELSE 0)

assessFormatting(originalCode, transformedCode) ==
    FormattingRule(Len(Split(originalCode, "\n")),
                   Len(Split(transformedCode, "\n")),
                   countIndentationIssues(originalCode),
                   countIndentationIssues(transformedCode),
                   LongLines(Split(originalCode, "\n")),
                   LongLines(Split(transformedCode, "\n")))

\* The token tiers with a ratio of exactly 0.8 counted as a significant
\* reduction.
TokenCountScoreInclusive(originalTokens, transformedTokens) ==
    IF RatioLe(transformedTokens, originalTokens, 8, 10) THEN 15
    ELSE IF RatioLe(transformedTokens, originalTokens, 12, 10) THEN 10
    ELSE IF RatioGt(transformedTokens, originalTokens, 15, 10) THEN -5
    ELSE 0

\* breakdown.tokenCount; tokenRatio is transformedTokens / originalTokens.
TokenCountScore(originalTokens, transformedTokens) ==
    IF RatioLt(transformedTokens, originalTokens, 8, 10) THEN 15
    ELSE IF RatioLe(transformedTokens, originalTokens, 12, 10) THEN 10
    ELSE IF RatioGt(transformedTokens, originalTokens, 15, 10) THEN -5
    ELSE 0

\* breakdown.variableNameImprovement, from the two avgLength values.
NameImprovementScore(o, t) ==
    IF t[1] * o[2] > o[1] * t[2]
    THEN Min2(25, Round(8 * (t[1] * o[2] - o[1] * t[2]), t[2] * o[2]))
    ELSE 0

\* The eval tiers with an unchanged count of eval calls counted as a partial
\* removal.
EvalRemovalScoreInclusive(originalEvalCount, transformedEvalCount) ==
    IF originalEvalCount > 0 /\ transformedEvalCount = 0 THEN 20
    ELSE IF originalEvalCount >= transformedEvalCount /\ originalEvalCount > 0 THEN 10
    ELSE IF transformedEvalCount > 0 THEN -10
    ELSE 0

\* breakdown.evalRemoval
EvalRemovalScore(originalEvalCount, transformedEvalCount) ==
    IF originalEvalCount > 0 /\ transformedEvalCount = 0 THEN 20
    ELSE IF originalEvalCount > transformedEvalCount THEN 10
    ELSE IF transformedEvalCount > 0 THEN -10
    ELSE 0

\* A result whose score leaves the formatting component out of the sum while
\* the breakdown still reports it.
ResultWithoutFormatting(tokenCount, variableNameImprovement, evalRemoval, formatting) ==
    [score |-> Clamp(50 + tokenCount + variableNameImprovement + evalRemoval),
     breakdown |-> [tokenCount |-> tokenCount,
                    variableNameImprovement |-> variableNameImprovement,
                    evalRemoval |-> evalRemoval,
                    formatting |-> formatting,
                    total |-> Clamp(50 + tokenCount + variableNameImprovement
                                       + evalRemoval)]]

\* The sum of the base score and the four components, clamped into
\* breakdown.total, and the object returned.
ChallengeResult(tokenCount, variableNameImprovement, evalRemoval, formatting) ==
    LET score == 50 + tokenCount + variableNameImprovement + evalRemoval + formatting
        total == Clamp(score)
    IN  [score |-> total,
         breakdown |-> [tokenCount |-> tokenCount,
                        variableNameImprovement |-> variableNameImprovement,
                        evalRemoval |-> evalRemoval,
                        formatting |-> formatting,
                        total |-> total]]

getChallengeScore(originalCode, transformedCode) ==
    ChallengeResult(
        TokenCountScore(countTokens(originalCode), countTokens(transformedCode)),
        NameImprovementScore(analyzeVariableNames(originalCode).avgLength,
                             analyzeVariableNames(transformedCode).avgLength),
        EvalRemovalScore(MatchCount(evalPattern, originalCode),
                         MatchCount(evalPattern, transformedCode)),
        assessFormatting(originalCode, transformedCode))

(***************************************************************************)
(* Inputs                                                                  *)
(***************************************************************************)
\* ""
EmptyCode == <<  >>

\* "let x = 1;"
LetX == << "l", "e", "t", " ", "x", " ", "=", " ", "1", ";" >>

\* "let xValue = 1;"
LetXValue == << "l", "e", "t", " ", "x", "V", "a", "l", "u", "e", " ", "=", " ", "1", ";" >>

\* "eval('x');"
EvalQuoted == << "e", "v", "a", "l", "(", "'", "x", "'", ")", ";" >>

\* "eval(x);"
EvalX == << "e", "v", "a", "l", "(", "x", ")", ";" >>

\* "const y = x;"
ConstY == << "c", "o", "n", "s", "t", " ", "y", " ", "=", " ", "x", ";" >>

\* "x = 1"
AssignX == << "x", " ", "=", " ", "1" >>

\* "eval(a);var b;var c;eval (d)"
EvalAndVars == << "e", "v", "a", "l", "(", "a", ")", ";", "v", "a", "r", " ", "b", ";", "v", "a", "r", " ", "c", ";", "e", "v", "a", "l", " ", "(", "d", ")" >>

\* "const userName = 1;"
ConstUserName == << "c", "o", "n", "s", "t", " ", "u", "s", "e", "r", "N", "a", "m", "e", " ", "=", " ", "1", ";" >>

\* "var user_name;let a"
VarSnake == << "v", "a", "r", " ", "u", "s", "e", "r", "_", "n", "a", "m", "e", ";", "l", "e", "t", " ", "a" >>

\* "if (x) {\nfoo();\n}"
IfUnindented == << "i", "f", " ", "(", "x", ")", " ", "{", "\n", "f", "o", "o", "(", ")", ";", "\n", "}" >>

\* "if (x) {\n  foo();\n}"
IfIndented == << "i", "f", " ", "(", "x", ")", " ", "{", "\n", " ", " ", "f", "o", "o", "(", ")", ";", "\n", "}" >>

\* "if(false){} if ( 0 ) {\n}"
DeadCode == << "i", "f", "(", "f", "a", "l", "s", "e", ")", "{", "}", " ", "i", "f", " ", "(", " ", "0", " ", ")", " ", "{", "\n", "}" >>

\* "const f = (a) => { return a; };"
Arrow == << "c", "o", "n", "s", "t", " ", "f", " ", "=", " ", "(", "a", ")", " ", "=", ">", " ", "{", " ", "r", "e", "t", "u", "r", "n", " ", "a", ";", " ", "}", ";" >>

\* "<div>hi</div>"
Jsx == << "<", "d", "i", "v", ">", "h", "i", "<", "/", "d", "i", "v", ">" >>

\* "function f(){}"
NamedFunction == << "f", "u", "n", "c", "t", "i", "o", "n", " ", "f", "(", ")", "{", "}" >>

\* "{\n{\n{\n{\n}\n}"
Nested == << "{", "\n", "{", "\n", "{", "\n", "{", "\n", "}", "\n", "}" >>

\* "{{{{}}}}"
NestedInline == << "{", "{", "{", "{", "}", "}", "}", "}" >>

\* "}\n}\n{"
Unbalanced == << "}", "\n", "}", "\n", "{" >>

\* "new Function('a')"
NewFunction == << "n", "e", "w", " ", "F", "u", "n", "c", "t", "i", "o", "n", "(", "'", "a", "'", ")" >>

\* "a b c d e"
FiveTokens == << "a", " ", "b", " ", "c", " ", "d", " ", "e" >>

\* "a b c d e f"
SixTokens == << "a", " ", "b", " ", "c", " ", "d", " ", "e", " ", "f" >>

\* "a + b + c + d"
FourTokens == << "a", " ", "+", " ", "b", " ", "+", " ", "c", " ", "+", " ", "d" >>

\* "  \n "
Spaces == << " ", " ", "\n", " " >>

\* Thirteen "<".
ManyTags ==
    << "<", "<", "<", "<", "<", "<", "<", "<", "<", "<", "<", "<", "<" >>

\* Ten "=>".
ManyArrows ==
    << "=", ">", "=", ">", "=", ">", "=", ">", "=", ">", "=", ">", "=", ">",
       "=", ">", "=", ">", "=", ">" >>

\* Eleven "eval(" and then "let userName".
ElevenEvals ==
    << "e", "v", "a", "l", "(", "e", "v", "a", "l", "(", "e", "v", "a", "l",
       "(", "e", "v", "a", "l", "(", "e", "v", "a", "l", "(", "e", "v", "a",
       "l", "(", "e", "v", "a", "l", "(", "e", "v", "a", "l", "(", "e", "v",
       "a", "l", "(", "e", "v", "a", "l", "(", "e", "v", "a", "l", "(", "l",
       "e", "t", " ", "u", "s", "e", "r", "N", "a", "m", "e" >>

\* "if (a) {\n  b();\n} else {\n  c();\n}"
IfElse ==
    << "i", "f", " ", "(", "a", ")", " ", "{", "\n", " ", " ", "b", "(", ")",
       ";", "\n", "}", " ", "e", "l", "s", "e", " ", "{", "\n", " ", " ",
       "c", "(", ")", ";", "\n", "}" >>

Bodies ==
    {EmptyCode, LetX, LetXValue, EvalQuoted, EvalX,
     ConstY, AssignX, EvalAndVars, ConstUserName, VarSnake,
     IfUnindented, IfIndented, DeadCode, Arrow, Jsx,
     NamedFunction, Nested, NestedInline, Unbalanced, NewFunction,
     FiveTokens, SixTokens, FourTokens, Spaces,
     ManyTags, ManyArrows, ElevenEvals, IfElse}

\* The most spaces appended to LetX to vary its length by single characters.
MaxPad == 10

\* The most entries of a leaderboard, and the largest score (and, negated,
\* the smallest) of an entry.
MaxEntries == 3

MaxScore == 1

Plain(body) == [head |-> body, fill |-> " ", pad |-> 0, tail |-> << >>]

Padded(body, n) == [head |-> body, fill |-> " ", pad |-> n, tail |-> << >>]

\* The lengths the tiers of calculateComplexityFactor and the length penalty
\* of calculateReadabilityScore turn on, and the next length up.
TierLengths == {200, 201, 500, 501, 1000, 1001}

\* A comment line of 101 characters: one more than a long line's limit.
LongLine == [head |-> << >>, fill |-> "/", pad |-> 101, tail |-> << >>]

\* A named function whose body holds 14 line breaks: 15 lines.
LongFunction ==
    [head |-> << "f","u","n","c","t","i","o","n"," ","f","(",")","{" >>,
     fill |-> "\n", pad |-> 14, tail |-> << "}" >>]

ShortSnapshots ==
    {Plain(b) : b \in Bodies} \cup {Padded(LetX, n) : n \in 1..MaxPad}

LongSnapshots ==
    {Padded(LetX, n - Len(LetX)) : n \in TierLengths} \cup {LongLine, LongFunction}

Snapshots == ShortSnapshots \cup LongSnapshots

\* The snapshots a long snapshot is paired with, besides the long ones.
Companions == {Plain(EmptyCode), Plain(LetX), Plain(EvalAndVars)}

\* The (original, transformed) pairs passed to calculateScore and
\* getChallengeScore.
CodePairs ==
    (ShortSnapshots \X ShortSnapshots)
      \cup (LongSnapshots \X (LongSnapshots \cup Companions))
      \cup (Companions \X LongSnapshots)

TransformerIds == KnownIds \cup {"unknown-id", "constructor", "toString", ""}

Null == [type |-> "null", nan |-> FALSE, val |-> 0]

ObjectValue == [type |-> "object", nan |-> FALSE, val |-> 0]

\* What a caller may pass as code: any snapshot, or a value that is no string.
CodeArguments ==
    {[type |-> "string", str |-> s] : s \in Snapshots}
      \cup {[type |-> "value", str |-> v] :
               v \in {Undefined, Null, ObjectValue, NaN, Number(0), Number(42)}}

\* The JavaScript value an argument denotes.
ValueOf(arg) == IF arg.type = "string" THEN String(Text(arg.str)) ELSE arg.str

\* The arrays of at most MaxEntries entries; player tells the entries apart.
EntryArrays ==
    UNION {{[k \in 1..n |-> [player |-> k, score |-> f[k]]] :
               f \in [1..n -> (0 - MaxScore)..MaxScore]} : n \in 0..MaxEntries}

(***************************************************************************)
(* The state machine: one call of an exported function at a time           *)
(***************************************************************************)
VARIABLES
    pc,                \* "idle", or "returned" after a call
    fn,                \* the function called
    originalCode,      \* arguments of calculateScore and getChallengeScore
    transformedCode,
    transformerId,
    code,              \* argument of calculateReadabilityScore
    passed,            \* the array passed to getLeaderboard, as it was
    entries,           \* that array after the call
    basePoints,        \* locals of calculateScore
    complexityFactor,
    bonusPoints,
    totalScore,        \* value calculateScore returned
    readabilityScore,  \* value calculateReadabilityScore returned
    challenge,         \* value getChallengeScore returned
    leaderboard        \* value getLeaderboard returned

vars == << pc, fn, originalCode, transformedCode, transformerId, code, passed,
           entries, basePoints, complexityFactor, bonusPoints, totalScore,
           readabilityScore, challenge, leaderboard >>

NoBreakdown ==
    [tokenCount |-> 0, variableNameImprovement |-> 0, evalRemoval |-> 0,
     formatting |-> 0, total |-> 0]

Init ==
    /\ pc = "idle"
    /\ fn = "none"
    /\ originalCode = Plain(EmptyCode)
    /\ transformedCode = Plain(EmptyCode)
    /\ transformerId = ""
    /\ code = [type |-> "value", str |-> Undefined]
    /\ passed = << >>
    /\ entries = << >>
    /\ basePoints = Number(0)
    /\ complexityFactor = 0
    /\ bonusPoints = 0
    /\ totalScore = Number(0)
    /\ readabilityScore = 0
    /\ challenge = [score |-> 0, breakdown |-> NoBreakdown]
    /\ leaderboard = << >>

CalculateScore ==
    /\ pc = "idle"
    /\ \E p \in CodePairs, id \in TransformerIds :
          \E r \in {calculateScore(Text(p[1]), Text(p[2]), id)} :
              /\ originalCode' = p[1]
              /\ transformedCode' = p[2]
              /\ transformerId' = id
              /\ basePoints' = r.basePoints
              /\ complexityFactor' = r.complexityFactor
              /\ bonusPoints' = r.bonusPoints
              /\ totalScore' = r.totalScore
    /\ pc' = "returned"
    /\ fn' = "calculateScore"
    /\ UNCHANGED << code, passed, entries, readabilityScore, challenge, leaderboard >>

CalculateReadabilityScore ==
    /\ pc = "idle"
    /\ \E c \in CodeArguments :
          /\ code' = c
          /\ readabilityScore' = calculateReadabilityScore(ValueOf(c))
    /\ pc' = "returned"
    /\ fn' = "calculateReadabilityScore"
    /\ UNCHANGED << originalCode, transformedCode, transformerId, passed, entries,
                    basePoints, complexityFactor, bonusPoints, totalScore,
                    challenge, leaderboard >>

GetChallengeScore ==
    /\ pc = "idle"
    /\ \E p \in CodePairs :
          /\ originalCode' = p[1]
          /\ transformedCode' = p[2]
          /\ challenge' = getChallengeScore(Text(p[1]), Text(p[2]))
    /\ pc' = "returned"
    /\ fn' = "getChallengeScore"
    /\ UNCHANGED << transformerId, code, passed, entries, basePoints,
                    complexityFactor, bonusPoints, totalScore, readabilityScore,
                    leaderboard >>

GetLeaderboard ==
    /\ pc = "idle"
    /\ \E e \in EntryArrays :
          \E r \in {getLeaderboard(e)} :
              /\ passed' = e
              /\ entries' = r.entries
              /\ leaderboard' = r.returned
    /\ pc' = "returned"
    /\ fn' = "getLeaderboard"
    /\ UNCHANGED << originalCode, transformedCode, transformerId, code, basePoints,
                    complexityFactor, bonusPoints, totalScore, readabilityScore,
                    challenge >>

\* The caller takes the result; nothing is kept between calls.
Return ==
    /\ pc = "returned"
    /\ pc' = "idle"
    /\ fn' = "none"
    /\ originalCode' = Plain(EmptyCode)
    /\ transformedCode' = Plain(EmptyCode)
    /\ transformerId' = ""
    /\ code' = [type |-> "value", str |-> Undefined]
    /\ passed' = << >>
    /\ entries' = << >>
    /\ basePoints' = Number(0)
    /\ complexityFactor' = 0
    /\ bonusPoints' = 0
    /\ totalScore' = Number(0)
    /\ readabilityScore' = 0
    /\ challenge' = [score |-> 0, breakdown |-> NoBreakdown]
    /\ leaderboard' = << >>

Next ==
    \/ CalculateScore
    \/ CalculateReadabilityScore
    \/ GetChallengeScore
    \/ GetLeaderboard
    \/ Return

Spec == Init /\ [][Next]_vars

(***************************************************************************)
(* Properties                                                              *)
(***************************************************************************)
\* A call of f has returned.
Returned(f) == pc = "returned" /\ fn = f

\* The length of a snapshot, from its parts.
Length(s) == Len(s.head) + s.pad + Len(s.tail)

\* The base points the documentation lists, 5 for an id it does not list.
ListedPoints(id) ==
    CASE id = "format" -> 10
      [] id = "minify" -> 20
      [] id = "es6-to-es5" -> 30
      [] id = "jsx-to-js" -> 40
      [] id = "rename-variables" -> 25
      [] id = "flatten-control-flow" -> 35
      [] id = "remove-dead-code" -> 30
      [] OTHER -> 5

\* round(points * complexityFactor + bonusPoints), the factor in
\* ten-thousandths.
RoundedSum(points, factor, bonus) == (2 * (points * factor + bonus * Scale) + Scale) \div (2 * Scale)

\* C1: for every transformerId, calculateScore returns
\* round(basePoints * complexityFactor + bonusPoints), basePoints being the
\* listed value of the id (5 when it is not listed).  The code does not
\* satisfy this for an id that names a property inherited from
\* Object.prototype.
C1_ScoreIsRoundedSum ==
    Returned("calculateScore") =>
        /\ totalScore.type = "number"
        /\ ~totalScore.nan
        /\ totalScore.val =
               RoundedSum(ListedPoints(transformerId), complexityFactor, bonusPoints)

\* C2: for every transformerId that is not one of the seven listed ids,
\* calculateScore uses base points 5 and bonus 0 and returns the number
\* round(5 * complexityFactor).  The code does not satisfy this for
\* 'constructor' or 'toString'.
C2_UnlistedIdScoresFive ==
    (Returned("calculateScore") /\ transformerId \notin KnownIds) =>
        /\ basePoints = Number(5)
        /\ bonusPoints = 0
        /\ totalScore = Number(RoundedSum(5, complexityFactor, 0))

\* C3: calculateReadabilityScore returns an integer from 0 to 100, and 0
\* when its argument is not a string or is the empty string.
C3_ReadabilityBounded ==
    Returned("calculateReadabilityScore") =>
        /\ readabilityScore \in 0..100
        /\ (code.type # "string" \/ Length(code.str) = 0) => readabilityScore = 0

\* A string whose readability sum exceeds 100 has been scored, as 100.
C3_Witness ==
    /\ Returned("calculateReadabilityScore")
    /\ code.type = "string"
    /\ ReadabilitySum(Text(code.str)) > 100
    /\ readabilityScore = 100

\* 50 plus the four components of the breakdown returned.
BreakdownSum ==
    50 + challenge.breakdown.tokenCount + challenge.breakdown.variableNameImprovement
       + challenge.breakdown.evalRemoval + challenge.breakdown.formatting

\* C4: getChallengeScore returns as score an integer from 0 to 100, the sum
\* of 50 and the four components of the breakdown clamped to that range,
\* and breakdown.total equals the score.
C4_ChallengeScoreIsClampedSum ==
    Returned("getChallengeScore") =>
        /\ challenge.score \in 0..100
        /\ challenge.score =
               (IF BreakdownSum < 0 THEN 0
                ELSE IF BreakdownSum > 100 THEN 100 ELSE BreakdownSum)
        /\ challenge.breakdown.total = challenge.score

\* A pair whose components sum to more than 100 has been scored.
C4_Witness ==
    /\ Returned("getChallengeScore")
    /\ BreakdownSum > 100
    /\ challenge.score = 100

\* C5: with an empty original the change ratio counts as 0, so the
\* complexity factor is 1.0 whatever the transformed code.  The code divides
\* by the zero length instead.
C5_EmptyOriginalFactorOne ==
    (Returned("calculateScore") /\ Length(originalCode) = 0) =>
        complexityFactor = Scale

\* The tiers of the length factor and of the change factor as documented,
\* in hundredths, for an original of o > 0 characters and a transformed code
\* of t characters; d / o > c / 10 is written 10 * d > c * o.
ListedLengthFactor(o) ==
    IF o > 1000 THEN 150 ELSE IF o > 500 THEN 125 ELSE IF o > 200 THEN 110 ELSE 100

ListedChangeFactor(o, t) ==
    LET d == IF t >= o THEN t - o ELSE o - t
    IN  IF 10 * d > 5 * o THEN 150
        ELSE IF 10 * d > 3 * o THEN 130
        ELSE IF 10 * d > o THEN 110
        ELSE 100

\* C6: for a non-empty original, the complexity factor is the product of the
\* length factor (1.5 above 1000 characters, 1.25 above 500, 1.1 above 200,
\* else 1.0) and the change factor (1.5 for a change ratio above 0.5, 1.3
\* above 0.3, 1.1 above 0.1, else 1.0), and lies between 1.0 and 2.25.
C6_ComplexityFactorTiers ==
    (Returned("calculateScore") /\ Length(originalCode) > 0) =>
        /\ complexityFactor =
               ListedLengthFactor(Length(originalCode))
                 * ListedChangeFactor(Length(originalCode), Length(transformedCode))
        /\ complexityFactor >= Scale
        /\ 4 * complexityFactor <= 9 * Scale

\* An original of exactly 1000 characters, still in the 1.25 tier, has been
\* scored against a transformed code less than half as long.
C6_Witness ==
    /\ Returned("calculateScore")
    /\ Length(originalCode) = 1000
    /\ 2 * Length(transformedCode) < Length(originalCode)
    /\ complexityFactor = 125 * 150

\* entries is in non-increasing order of score.
Descending(array) ==
    \A i, j \in 1..Len(array) : i < j => array[i].score >= array[j].score

\* C7: getLeaderboard returns a permutation of the entries passed, in
\* non-increasing order of score, entries of equal score in the order they
\* were passed; the array passed is unchanged; an array already in
\* descending order comes back in the same order, and so does the result
\* when it is sorted again.
C7_LeaderboardStableSort ==
    Returned("getLeaderboard") =>
        /\ entries = passed
        /\ Len(leaderboard) = Len(passed)
        /\ \A k \in 1..Len(passed) :
              Cardinality({i \in 1..Len(leaderboard) : leaderboard[i] = passed[k]}) = 1
        /\ Descending(leaderboard)
        /\ \A i, j \in 1..Len(leaderboard) :
              (i < j /\ leaderboard[i].score = leaderboard[j].score)
                  => leaderboard[i].player < leaderboard[j].player
        /\ Descending(passed) => leaderboard = passed
        /\ getLeaderboard(leaderboard).returned = leaderboard

\* An array out of order that holds two entries of equal score has been
\* sorted.
C7_Witness ==
    /\ Returned("getLeaderboard")
    /\ ~Descending(passed)
    /\ \E i, j \in 1..Len(passed) : i < j /\ passed[i].score = passed[j].score
    /\ leaderboard # passed

\* The minify bonus as documented for an original of o characters and a
\* transformed code of t characters: the reduction ratio is (o - t) / o, and
\* there is no bonus for an empty original.
ListedMinifyBonus(o, t) ==
    IF o = 0 THEN 0
    ELSE IF 10 * (o - t) > 5 * o THEN 30
    ELSE IF 10 * (o - t) > 3 * o THEN 20
    ELSE IF 10 * (o - t) > o THEN 10
    ELSE 0

\* C8: for 'minify' the bonus is 30 for a reduction ratio above 0.5, 20 above
\* 0.3, 10 above 0.1, else 0, and 0 for an empty original; and any variant
\* of the same original with a strictly greater reduction ratio earns at
\* least the same bonus.
C8_MinifyBonusTiers ==
    (Returned("calculateScore") /\ transformerId = "minify") =>
        /\ bonusPoints = ListedMinifyBonus(Length(originalCode), Length(transformedCode))
        /\ \A b \in Snapshots :
              (Length(originalCode) > 0 /\ Length(b) < Length(transformedCode))
                  => minifyBonus(Text(originalCode), Text(b)) >= bonusPoints

\* A minified code exactly half as long as its original has earned the bonus
\* of 20, and a shorter variant of it earns 30.
C8_Witness ==
    /\ Returned("calculateScore")
    /\ transformerId = "minify"
    /\ Length(originalCode) > 0
    /\ 2 * Length(transformedCode) = Length(originalCode)
    /\ bonusPoints = 20
    /\ \E b \in Snapshots :
          /\ Length(b) < Length(transformedCode)
          /\ minifyBonus(Text(originalCode), Text(b)) = 30

\* The counts of eval( in the two snapshots of the call.
OriginalEvals == MatchCount(evalPattern, Text(originalCode))

TransformedEvals == MatchCount(evalPattern, Text(transformedCode))

\* C9: breakdown.evalRemoval is 20 when the original holds an eval( and the
\* transformed code none, else 10 when the original holds more than the
\* transformed code, else -10 when the transformed code holds any, else 0;
\* it is -10 exactly when the transformed code holds at least as many as the
\* original and at least one.
C9_EvalRemovalCases ==
    Returned("getChallengeScore") =>
        /\ challenge.breakdown.evalRemoval =
               (IF OriginalEvals >= 1 /\ TransformedEvals = 0 THEN 20
                ELSE IF OriginalEvals > TransformedEvals THEN 10
                ELSE IF TransformedEvals > 0 THEN 0 - 10
                ELSE 0)
        /\ challenge.breakdown.evalRemoval \in {20, 10, 0 - 10, 0}
        /\ challenge.breakdown.evalRemoval = 0 - 10
              <=> (TransformedEvals >= OriginalEvals /\ TransformedEvals > 0)

\* A pair that keeps the number of its eval calls has been penalised.
C9_Witness ==
    /\ Returned("getChallengeScore")
    /\ OriginalEvals >= 1
    /\ TransformedEvals = OriginalEvals
    /\ challenge.breakdown.evalRemoval = 0 - 10

\* The token counts of the two snapshots of the call.
OriginalTokens == countTokens(Text(originalCode))

TransformedTokens == countTokens(Text(transformedCode))

\* C10: for an original of at least one token, breakdown.tokenCount is 15
\* for a token ratio below 0.8, 10 for a ratio from 0.8 to 1.2, 0 for a ratio
\* above 1.2 and up to 1.5, and -5 for a ratio above 1.5; for every pair it
\* is one of 15, 10, 0 and -5.
C10_TokenCountTiers ==
    Returned("getChallengeScore") =>
        /\ OriginalTokens > 0 =>
              challenge.breakdown.tokenCount =
                  (IF 10 * TransformedTokens < 8 * OriginalTokens THEN 15
                   ELSE IF 10 * TransformedTokens <= 12 * OriginalTokens THEN 10
                   ELSE IF 10 * TransformedTokens <= 15 * OriginalTokens THEN 0
                   ELSE 0 - 5)
        /\ challenge.breakdown.tokenCount \in {15, 10, 0, 0 - 5}

\* A transformed code of exactly 0.8 times the tokens of its original has
\* been given 10.
C10_Witness ==
    /\ Returned("getChallengeScore")
    /\ OriginalTokens > 0
    /\ 10 * TransformedTokens = 8 * OriginalTokens
    /\ challenge.breakdown.tokenCount = 10

\* The names declared in the two snapshots of the call.
OriginalNames == DeclaredNames(Text(originalCode))

TransformedNames == DeclaredNames(Text(transformedCode))

\* The single-character names among names.
SingleChars(names) == Cardinality({k \in 1..Len(names) : Len(names[k]) = 1})

\* round(10 * max(0, t - o)) for two averages <<total, count>>.
RoundedGain(o, t) ==
    IF t[1] * o[2] <= o[1] * t[2] THEN 0
    ELSE (20 * (t[1] * o[2] - o[1] * t[2]) + t[2] * o[2]) \div (2 * t[2] * o[2])

\* C11: for 'rename-variables' the bonus is round(10 * max(0, increase of the
\* average name length)) plus 5 times the signed difference of the counts of
\* single-character names, so that an added single-character name subtracts
\* 5.  The code adds the second term only when the count went down.
C11_RenameBonusSigned ==
    (Returned("calculateScore") /\ transformerId = "rename-variables") =>
        bonusPoints =
            RoundedGain(Average(OriginalNames), Average(TransformedNames))
              + 5 * (SingleChars(OriginalNames) - SingleChars(TransformedNames))

\* The places of text where pat stands, counted one by one.
PlacesIn(text, pat) ==
    Cardinality({i \in 1..(Len(text) - Len(pat) + 1) :
                    \A j \in 1..Len(pat) : text[i + j - 1] = pat[j]})

Places(s, pat) == PlacesIn(Text(s), pat)

\* "let " and "const " together.
LetConsts(s) == Places(s, <<"l", "e", "t", " ">>) + Places(s, <<"c", "o", "n", "s", "t", " ">>)

\* C12: calculateScore is not floored at 0.  For 'es6-to-es5' the bonus is
\* the signed value 5 * (arrows removed) + 3 * (let and const removed), for
\* 'jsx-to-js' the signed value 5 * ("<" removed), and the score returned is
\* the rounded sum with that bonus, negative when the bonus is negative
\* enough.
C12_SignedBonusNoFloor ==
    Returned("calculateScore") =>
        /\ transformerId = "es6-to-es5" =>
              bonusPoints =
                  5 * (Places(originalCode, <<"=", ">">>)
                         - Places(transformedCode, <<"=", ">">>))
                    + 3 * (LetConsts(originalCode) - LetConsts(transformedCode))
        /\ transformerId = "jsx-to-js" =>
              bonusPoints =
                  5 * (Places(originalCode, <<"<">>) - Places(transformedCode, <<"<">>))
        /\ transformerId \in {"es6-to-es5", "jsx-to-js"} =>
              /\ totalScore =
                     Number(RoundedSum(ListedPoints(transformerId), complexityFactor,
                                       bonusPoints))
              /\ (ListedPoints(transformerId) * complexityFactor + bonusPoints * Scale < 0 - Scale)
                     => totalScore.val < 0

\* A 'jsx-to-js' call whose transformed code holds more "<" than its
\* non-empty original has returned a negative score.
C12_Witness ==
    /\ Returned("calculateScore")
    /\ transformerId = "jsx-to-js"
    /\ Length(originalCode) > 0
    /\ Places(transformedCode, <<"<">>) > Places(originalCode, <<"<">>)
    /\ bonusPoints < 0
    /\ totalScore.val < 0

\* The penalties and the bonuses of a text, each signal counted over the
\* whole text.
Penalties(text) ==
    10 * (MatchCount(evalPattern, text) + MatchCount(functionConstructorPattern, text))
      + 5 * MatchCount(singleCharVarPattern, text)
      + 5 * MatchCount(deepNestingPattern, text)
      + (IF Len(text) > 500 THEN 5 ELSE 0)

Bonuses(text) ==
    10 * MatchCount(descriptiveVarPattern, text)
      + 5 * ShortBodies(text, MatchAll(functionPattern, text), 2)
      + 5 * ShortBodies(text, MatchAll(arrowFunctionPattern, text), 1)

\* 100 less the penalties plus the bonuses, clamped once.
ClampedOnce(penalties, bonuses) ==
    IF 100 + bonuses - penalties < 0 THEN 0
    ELSE IF 100 + bonuses - penalties > 100 THEN 100
    ELSE 100 + bonuses - penalties

\* C13: for a non-empty string calculateReadabilityScore is 100 less 10 per
\* eval( and new Function(, 5 per single-character declaration, 5 per deep
\* nesting and 5 for more than 500 characters, plus 10 per descriptive
\* declaration and 5 per short function and short arrow function, summed
\* first and clamped to 0..100 once at the end; "eval('x');" scores 90.
C13_ReadabilityIsClampedSum ==
    (Returned("calculateReadabilityScore") /\ code.type = "string" /\ Length(code.str) > 0) =>
        /\ readabilityScore =
               ClampedOnce(Penalties(Text(code.str)), Bonuses(Text(code.str)))
        /\ code.str = Plain(EvalQuoted) => readabilityScore = 90
        /\ code.str = Plain(ElevenEvals) => readabilityScore = 0
        /\ code.str = Plain(ConstUserName) => readabilityScore = 100

\* A string whose penalties exceed 100 and which earns a bonus has been
\* scored: the bonus has offset the part of the penalties below 0.
C13_Witness ==
    /\ Returned("calculateReadabilityScore")
    /\ code.type = "string"
    /\ Penalties(Text(code.str)) > 100
    /\ Bonuses(Text(code.str)) > 0
    /\ readabilityScore = 0

\* One line of the indentation scan as documented, st being [issues, depth]:
\* a blank line changes nothing; another line is an issue when its leading
\* whitespace is not 2 * depth, and then the depth goes up for a line ending
\* with "{" and down, not below 0, for a line starting with "}".
ListedIndentStep(st, line) ==
    IF Trim(line) = << >> THEN st
    ELSE [issues |-> st.issues
                       + (IF Len(line) - Len(TrimStart(line)) # 2 * st.depth THEN 1 ELSE 0),
          depth |-> Max2(0, st.depth
                              + (IF EndsWith(Trim(line), "{") THEN 1 ELSE 0)
                              - (IF StartsWith(Trim(line), "}") THEN 1 ELSE 0))]

RECURSIVE ListedIndentLoop(_, _, _)
ListedIndentLoop(lines, k, st) ==
    IF k > Len(lines) THEN st
    ELSE ListedIndentLoop(lines, k + 1, ListedIndentStep(st, lines[k]))

ListedIssues(text) == ListedIndentLoop(Split(text, "\n"), 1, [issues |-> 0, depth |-> 0]).issues

\* C14: countIndentationIssues counts the non-blank lines whose leading
\* whitespace differs from twice the expected depth, the depth going up
\* after a line that ends with "{" and down, not below 0, after a line that
\* starts with "}"; and the 'format' bonus is twice the issues removed when
\* some were removed, else 0.  The code leaves the depth of a line that both
\* starts with "}" and ends with "{" one too high.
C14_IndentationIssuesAndFormatBonus ==
    (Returned("calculateScore") /\ transformerId = "format") =>
        /\ countIndentationIssues(Text(originalCode)) = ListedIssues(Text(originalCode))
        /\ bonusPoints =
               (IF ListedIssues(Text(originalCode)) > ListedIssues(Text(transformedCode))
                THEN 2 * (ListedIssues(Text(originalCode))
                            - ListedIssues(Text(transformedCode)))
                ELSE 0)

\* The braces opened less the braces closed in the first i characters.
DepthAfter(text, i) ==
    Cardinality({j \in 1..i : text[j] = "{"}) - Cardinality({j \in 1..i : text[j] = "}"})

\* The greatest depth at the end of a line, and 0 at least: the lines end
\* before each line break and at the end of the text.
PeakDepth(text) ==
    LET ends == {i \in 0..Len(text) : i = Len(text) \/ text[i + 1] = "\n"}
        depths == {DepthAfter(text, i) : i \in ends} \cup {0}
    IN  CHOOSE m \in depths : \A d \in depths : d <= m

\* C15: calculateMaxNestingLevel returns the greatest running depth reached
\* at the end of a line, the depth of a line being that of the line before
\* plus its "{" less its "}", and never less than 0 even when the running
\* depth is negative; braces opened and closed on one line do not count.
\* The 'flatten-control-flow' bonus is 10 times the reduction of that level
\* when it was reduced, else 0.
C15_MaxNestingAndFlattenBonus ==
    (Returned("calculateScore") /\ transformerId = "flatten-control-flow") =>
        /\ calculateMaxNestingLevel(Text(originalCode)) = PeakDepth(Text(originalCode))
        /\ calculateMaxNestingLevel(Text(originalCode)) >= 0
        /\ bonusPoints =
               (IF PeakDepth(Text(originalCode)) > PeakDepth(Text(transformedCode))
                THEN 10 * (PeakDepth(Text(originalCode)) - PeakDepth(Text(transformedCode)))
                ELSE 0)

\* An original that nests over several lines has been flattened into a code
\* whose running depth goes negative and whose level is 0.
C15_Witness ==
    /\ Returned("calculateScore")
    /\ transformerId = "flatten-control-flow"
    /\ PeakDepth(Text(originalCode)) > 1
    /\ \E i \in 1..Length(transformedCode) : DepthAfter(Text(transformedCode), i) < 0
    /\ PeakDepth(Text(transformedCode)) = 0
    /\ bonusPoints = 10 * PeakDepth(Text(originalCode))

\* The ids whose bonus the documentation never makes negative: four of the
\* listed ids, and every id that is not listed.
FlooredIds ==
    {id \in TransformerIds :
        id \in {"format", "minify", "rename-variables", "flatten-control-flow"}
          \/ id \notin KnownIds}

\* C16: for 'format', 'minify', 'rename-variables', 'flatten-control-flow'
\* and for every id absent from the table, the bonus is not negative and the
\* complexity factor is at least 1.0, so calculateScore returns a finite
\* integer not below the base points of the id, and not below 5; a result
\* below the base points occurs only for 'es6-to-es5', 'jsx-to-js' and
\* 'remove-dead-code'.  The code returns NaN for an absent id that names a
\* property inherited from Object.prototype.
C16_ScoreAtLeastBasePoints ==
    Returned("calculateScore") =>
        /\ transformerId \in FlooredIds =>
              /\ bonusPoints >= 0
              /\ complexityFactor >= Scale
              /\ totalScore.type = "number"
              /\ ~totalScore.nan
              /\ totalScore.val >= ListedPoints(transformerId)
              /\ totalScore.val >= 5
        /\ (~totalScore.nan /\ totalScore.val < ListedPoints(transformerId))
              => transformerId \in {"es6-to-es5", "jsx-to-js", "remove-dead-code"}

====
